---- MODULE Spec2Model ----
(***************************************************************************)
(* Model of video_to_pdf_render/app.py: the /process request handler, the  *)
(* frame sampler extract_unique_frames, the document assembler             *)
(* convert_frames_to_pdf and the delayed cleanup thread.                   *)
(*                                                                         *)
(* Text is modelled as sequences of character codes (ASCII), so that the   *)
(* file-name formatting, the regular-expression search and the lexical     *)
(* sort of the directory listing are computed as Python computes them.     *)
(* Similarity scores and thresholds are hundredths (80 stands for 0.80).   *)
(***************************************************************************)
EXTENDS Integers, Sequences, FiniteSets, TLC

\* ------------------------------------------------------------- bounds
MaxVideoLen == 4      \* frames a stream delivers before it ends
MaxStride   == 2      \* largest sample_rate drawn
MaxBudget   == 3      \* largest max_frames drawn

\* ------------------------------------------------------------- inputs
SampleRates  == 0..MaxStride              \* int(request.form["sample_rate"])
Budgets      == 0..MaxBudget              \* int(request.form["max_frames"])
Thresholds   == {50, 80}                  \* float(request.form["ssim"]) * 100
SimValues    == {-20, 0, 60, 90, 100}     \* ssim(...) * 100
FpsReported  == {-1, 0, 1, 25}            \* cap.get(cv2.CAP_PROP_FPS)
Lums         == {10, 63, 64, 200}         \* mean luminance of the label corner
LongIdx      == {0, 1, 3725, 99999, 100000, 999999, 1000000}

VARIABLES
  pc,              \* position of process(): start, acquire, extract, loop, check, convert, pages, done
  response,        \* what process() answered
  taskDir,         \* task_dir on disk: absent, present, removed
  cleanup,         \* the start_cleanup thread: none, pending, done
  sample_rate, ssim_threshold, max_frames,
  cap,             \* the cv2.VideoCapture handle: none, unopened, open, released
  capFps,          \* the frame rate the stream reports
  fps,
  run,             \* locals of extract_unique_frames: frame_idx, saved, last_small, nread, st
  dir,             \* files of frames_dir: records [name, lum]
  files,           \* convert_frames_to_pdf: the sorted listing
  pages,           \* convert_frames_to_pdf: the pages added so far
  pdf,             \* none, written
  ssim_threshold2, \* threshold of the second run (two-run comparison only)
  run2             \* locals of the second run (two-run comparison only)

vars == <<pc, response, taskDir, cleanup, sample_rate, ssim_threshold, max_frames,
          cap, capFps, fps, run, dir, files, pages, pdf, ssim_threshold2, run2>>

\* ------------------------------------------------------------- text helpers
Digits(n) == \* str(n) for n >= 0
  LET RECURSIVE D(_)
      D(k) == IF k < 10 THEN <<48 + k>> ELSE D(k \div 10) \o <<48 + (k % 10)>>
  IN D(n)

Str(n) == IF n < 0 THEN <<45>> \o Digits(-n) ELSE Digits(n)

ZeroPad(n, width) == \* f"{n:0<width>d}" for n >= 0: at least width digits
  LET RECURSIVE P(_)
      P(s) == IF Len(s) >= width THEN s ELSE P(<<48>> \o s)
  IN P(Digits(n))

TruncDiv(a, b) == \* int(a / b), truncation towards zero, b # 0
  LET q == (IF a < 0 THEN -a ELSE a) \div (IF b < 0 THEN -b ELSE b)
  IN IF (a < 0) = (b < 0) THEN q ELSE -q

LexLess(a, b) == \* Python's str < str
  \E i \in 1..(Len(a) + 1) :
     /\ i <= Len(b)
     /\ \A k \in 1..(i - 1) : a[k] = b[k]
     /\ (i = Len(a) + 1 \/ a[i] < b[i])

Sorted(S) == \* sorted(S) for a set of distinct strings
  LET RECURSIVE Srt(_)
      Srt(T) == IF T = {} THEN <<>>
                ELSE LET m == CHOOSE x \in T : \A y \in T \ {x} : LexLess(x, y)
                     IN <<m>> \o Srt(T \ {m})
  IN Srt(S)

EndsWith(s, suf) ==
  /\ Len(s) >= Len(suf)
  /\ SubSeq(s, Len(s) - Len(suf) + 1, Len(s)) = suf

\* ------------------------------------------------------------- extract_unique_frames
DefaultFps(reported) == IF reported = 0 THEN 25 ELSE reported

\* variant: frames counted from one
IsCandidateOneBased(frame_idx, rate) == (frame_idx + 1) % rate = 0

IsCandidate(frame_idx, rate) == frame_idx % rate = 0

\* variant: comparison inverted
ShouldSaveAbove(last_small, sim, threshold) == last_small = <<>> \/ sim > threshold

ShouldSave(last_small, sim, threshold) == last_small = <<>> \/ sim < threshold

Timestamp(frame_idx, f) == TruncDiv(frame_idx, f)

OutName(frame_idx, timestamp) == \* f"frame_{frame_idx:06d}_{timestamp}s.png"
  <<102, 114, 97, 109, 101, 95>> \o ZeroPad(frame_idx, 6) \o <<95>>
     \o Str(timestamp) \o <<115, 46, 112, 110, 103>>

\* variant: budget test off by one
BudgetReachedLate(saved, budget) == Len(saved) > budget

BudgetReached(saved, budget) == Len(saved) >= budget

NewRun == [frame_idx |-> 0, saved |-> <<>>, last_small |-> <<>>, nread |-> 0, st |-> "loop"]

IdleRun == [frame_idx |-> 0, saved |-> <<>>, last_small |-> <<>>, nread |-> 0, st |-> "idle"]

LoopEnd(r) == [r EXCEPT !.st = "returned"]

LoopSkip(r) == [r EXCEPT !.frame_idx = @ + 1, !.nread = @ + 1]

LoopCandidate(r, sim, threshold, budget, f) ==
  IF ShouldSave(r.last_small, sim, threshold)
  THEN LET timestamp == Timestamp(r.frame_idx, f)
           out_name  == OutName(r.frame_idx, timestamp)
           saved     == Append(r.saved, [name |-> out_name, timestamp |-> timestamp])
       IN IF BudgetReached(saved, budget)
          THEN [r EXCEPT !.saved = saved, !.last_small = <<r.frame_idx>>,
                         !.nread = @ + 1, !.st = "returned"]
          ELSE [r EXCEPT !.saved = saved, !.last_small = <<r.frame_idx>>,
                         !.nread = @ + 1, !.frame_idx = @ + 1]
  ELSE [r EXCEPT !.frame_idx = @ + 1, !.nread = @ + 1]

LoopRaise(r) == [r EXCEPT !.nread = @ + 1, !.st = "raised"]

Written(r, r1, lum) == \* the file cv2.imwrite leaves when the step retained the frame
  IF Len(r1.saved) > Len(r.saved)
  THEN {[name |-> r1.saved[Len(r1.saved)].name, lum |-> lum]}
  ELSE {}

\* ------------------------------------------------------------- convert_frames_to_pdf
Listing(d) == \* sorted names ending in .png, .jpg or .jpeg
  Sorted({f.name : f \in {g \in d : \/ EndsWith(g.name, <<46, 112, 110, 103>>)
                                    \/ EndsWith(g.name, <<46, 106, 112, 103>>)
                                    \/ EndsWith(g.name, <<46, 106, 112, 101, 103>>)}})

ReSearch(fname) == \* re.search(r"_(\\d+)s", fname): group 1, or <<>> for no match
  LET n == Len(fname)
      M(i, j) == /\ i + 1 < j /\ j + 1 <= n
                 /\ fname[i] = 95 /\ fname[i + 1] = 92
                 /\ \A k \in (i + 2)..j : fname[k] = 100
                 /\ fname[j + 1] = 115
      hits == {p \in (1..n) \X (1..n) : M(p[1], p[2])}
  IN IF hits = {} THEN <<>>
     ELSE LET i == CHOOSE a \in {p[1] : p \in hits} : \A b \in {p[1] : p \in hits} : a <= b
              j == CHOOSE a \in {p[2] : p \in hits} :
                      /\ <<i, a>> \in hits
                      /\ \A p \in hits : p[1] = i => p[2] <= a
          IN SubSeq(fname, i + 1, j)

ToInt(s) == \* int(s) for a string of decimal digits
  LET RECURSIVE V(_)
      V(t) == IF t = <<>> THEN 0 ELSE 10 * V(SubSeq(t, 1, Len(t) - 1)) + (t[Len(t)] - 48)
  IN V(s)

IsDecimal(s) == s # <<>> /\ \A k \in 1..Len(s) : s[k] \in 48..57

Label(seconds) == \* f"{seconds//3600:02d}:{(seconds%3600)//60:02d}:{seconds%60:02d}"
  ZeroPad(seconds \div 3600, 2) \o <<58>> \o ZeroPad((seconds % 3600) \div 60, 2)
     \o <<58>> \o ZeroPad(seconds % 60, 2)

TextColor(mean) == <<255, 255, IF mean < 64 THEN 255 ELSE 0>>

LumOf(d, fname) == (CHOOSE f \in d : f.name = fname).lum

\* ------------------------------------------------------------- process()
\* variant: emptiness test inverted
NoFramesInverted(saved) == saved # <<>>

NoFrames(saved) == saved = <<>>

Init ==
  /\ pc = "start" /\ response = "none" /\ taskDir = "absent" /\ cleanup = "none"
  /\ sample_rate = 0 /\ ssim_threshold = 0 /\ max_frames = 0
  /\ cap = "none" /\ capFps = 0 /\ fps = 0 /\ run = IdleRun
  /\ dir = {} /\ files = <<>> /\ pages = <<>> /\ pdf = "none"
  /\ ssim_threshold2 = 0 /\ run2 = IdleRun

\* lines 164-166: a form value that is no number raises before the try block
ParamError ==
  /\ pc = "start"
  /\ pc' = "done" /\ response' = "unhandled"
  /\ UNCHANGED <<taskDir, cleanup, sample_rate, ssim_threshold, max_frames, cap, capFps, fps,
                 run, dir, files, pages, pdf, ssim_threshold2, run2>>

\* lines 164-173
ProcessStart ==
  /\ pc = "start"
  /\ \E s \in SampleRates, t \in Thresholds, m \in Budgets :
        /\ sample_rate' = s /\ ssim_threshold' = t /\ max_frames' = m
  /\ taskDir' = "present"
  /\ pc' = "acquire"
  /\ UNCHANGED <<response, cleanup, cap, capFps, fps, run, dir, files, pages, pdf,
                 ssim_threshold2, run2>>

\* the except clause, lines 205-207
Fail ==
  /\ taskDir' = "removed" /\ response' = "500" /\ pc' = "done"

\* lines 176-188
AcquireVideo ==
  /\ pc = "acquire"
  /\ \E upload \in {"none", "bad_ext", "ok"}, video_url \in BOOLEAN, ok \in BOOLEAN :
        IF upload = "bad_ext"
        THEN pc' = "done" /\ response' = "400 unsupported" /\ UNCHANGED taskDir
        ELSE IF upload = "none" /\ ~video_url
        THEN pc' = "done" /\ response' = "400 no video" /\ UNCHANGED taskDir
        ELSE IF ok
        THEN pc' = "extract" /\ UNCHANGED <<response, taskDir>>
        ELSE Fail
  /\ UNCHANGED <<cleanup, sample_rate, ssim_threshold, max_frames, cap, capFps, fps, run, dir,
                 files, pages, pdf, ssim_threshold2, run2>>

\* lines 190-98
ExtractOpen ==
  /\ pc = "extract"
  /\ \E opened \in BOOLEAN, reported \in FpsReported :
        IF opened
        THEN /\ cap' = "open" /\ capFps' = reported /\ fps' = DefaultFps(reported)
             /\ run' = NewRun
             /\ pc' = "loop" /\ UNCHANGED <<response, taskDir>>
        ELSE /\ cap' = "unopened" /\ run' = [IdleRun EXCEPT !.st = "raised"]
             /\ UNCHANGED <<capFps, fps>> /\ Fail
  /\ UNCHANGED <<cleanup, sample_rate, ssim_threshold, max_frames, dir, files, pages,
                 pdf, ssim_threshold2, run2>>

\* lines 100-102, 128-129
ReadEnd ==
  /\ pc = "loop" /\ run.st = "loop"
  /\ run' = LoopEnd(run) /\ cap' = "released" /\ pc' = "check"
  /\ UNCHANGED <<response, taskDir, cleanup, sample_rate, ssim_threshold, max_frames,
                 capFps, fps, dir, files, pages, pdf, ssim_threshold2, run2>>

\* lines 100-105
ReadSkip ==
  /\ pc = "loop" /\ run.st = "loop" /\ run.nread < MaxVideoLen
  /\ sample_rate # 0 /\ ~IsCandidate(run.frame_idx, sample_rate)
  /\ run' = LoopSkip(run)
  /\ UNCHANGED <<pc, response, taskDir, cleanup, sample_rate, ssim_threshold,
                 max_frames, cap, capFps, fps, dir, files, pages, pdf, ssim_threshold2, run2>>

\* lines 100-129: a candidate frame; the similarity computation may raise (sim = 0.0)
ReadCandidate ==
  /\ pc = "loop" /\ run.st = "loop" /\ run.nread < MaxVideoLen
  /\ sample_rate # 0 /\ IsCandidate(run.frame_idx, sample_rate)
  /\ \E s \in SimValues, ssimRaised \in BOOLEAN, lum \in Lums :
        LET sim == IF ssimRaised THEN 0 ELSE s
            r1  == LoopCandidate(run, sim, ssim_threshold, max_frames, fps)
            w   == Written(run, r1, lum)
        IN /\ run' = r1
           /\ dir' = {f \in dir : \A g \in w : g.name # f.name} \cup w
           /\ IF r1.st = "returned"
              THEN cap' = "released" /\ pc' = "check"
              ELSE UNCHANGED <<cap, pc>>
  /\ UNCHANGED <<response, taskDir, cleanup, sample_rate, ssim_threshold, max_frames,
                 capFps, fps, files, pages, pdf, ssim_threshold2, run2>>

\* lines 103-122: ZeroDivisionError for sample_rate 0, or cv2.error from cvtColor,
\* resize or imwrite on a candidate; nothing catches it before process()
ReadRaise ==
  /\ pc = "loop" /\ run.st = "loop" /\ run.nread < MaxVideoLen
  /\ (IF sample_rate = 0 THEN TRUE ELSE IsCandidate(run.frame_idx, sample_rate))
  /\ run' = LoopRaise(run)
  /\ Fail
  /\ UNCHANGED <<cleanup, sample_rate, ssim_threshold, max_frames, cap, capFps, fps, dir,
                 files, pages, pdf, ssim_threshold2, run2>>

\* lines 193-197
CheckSaved ==
  /\ pc = "check"
  /\ IF NoFrames(run.saved)
     THEN pc' = "done" /\ response' = "400 no frames"
     ELSE pc' = "convert" /\ UNCHANGED response
  /\ UNCHANGED <<taskDir, cleanup, sample_rate, ssim_threshold, max_frames, cap, capFps, fps,
                 run, dir, files, pages, pdf, ssim_threshold2, run2>>

\* lines 132-136
ConvertStart ==
  /\ pc = "convert"
  /\ LET listing == Listing(dir)
     IN IF listing = <<>>
        THEN Fail /\ UNCHANGED files
        ELSE files' = listing /\ pc' = "pages" /\ UNCHANGED <<response, taskDir>>
  /\ UNCHANGED <<cleanup, sample_rate, ssim_threshold, max_frames, cap, capFps, fps, run, dir,
                 pages, pdf, ssim_threshold2, run2>>

\* lines 137-152, one file
ConvertPage ==
  /\ pc = "pages" /\ Len(pages) < Len(files)
  /\ LET fname == files[Len(pages) + 1]
         m     == ReSearch(fname)
     IN IF m # <<>> /\ ~IsDecimal(m)
        THEN Fail /\ UNCHANGED pages \* int() raises ValueError
        ELSE LET seconds == IF m = <<>> THEN 0 ELSE ToInt(m)
             IN /\ pages' = Append(pages, [fname |-> fname, ts |-> Label(seconds),
                                           color |-> TextColor(LumOf(dir, fname))])
                /\ UNCHANGED <<pc, response, taskDir>>
  /\ UNCHANGED <<cleanup, sample_rate, ssim_threshold, max_frames, cap, capFps, fps, run, dir,
                 files, pdf, ssim_threshold2, run2>>

\* lines 153-154, 201-207: pdf.output may fail on I/O; url_for may raise after the
\* cleanup thread has been started
ConvertFinish ==
  /\ pc = "pages" /\ Len(pages) = Len(files)
  /\ \E outcome \in {"ok", "output fails", "url_for fails"} :
        IF outcome = "ok"
        THEN /\ pdf' = "written" /\ cleanup' = "pending"
             /\ response' = "200 done" /\ pc' = "done" /\ UNCHANGED taskDir
        ELSE IF outcome = "url_for fails"
        THEN pdf' = "written" /\ cleanup' = "pending" /\ Fail
        ELSE Fail /\ UNCHANGED <<pdf, cleanup>>
  /\ UNCHANGED <<sample_rate, ssim_threshold, max_frames, cap, capFps, fps, run, dir,
                 files, pages, ssim_threshold2, run2>>

\* lines 50-56, after the delay
CleanupFire ==
  /\ cleanup = "pending"
  /\ cleanup' = "done"
  /\ taskDir' = IF taskDir = "present" THEN "removed" ELSE taskDir
  /\ UNCHANGED <<pc, response, sample_rate, ssim_threshold, max_frames, cap, capFps, fps, run,
                 dir, files, pages, pdf, ssim_threshold2, run2>>

Next ==
  \/ ParamError \/ ProcessStart \/ AcquireVideo \/ ExtractOpen
  \/ ReadEnd \/ ReadSkip \/ ReadCandidate \/ ReadRaise
  \/ CheckSaved \/ ConvertStart \/ ConvertPage \/ ConvertFinish \/ CleanupFire

Spec == Init /\ [][Next]_vars

\* ------------------------------------------------------------- two runs, one video
\* extract_unique_frames run twice over the same stream with thresholds
\* ssim_threshold <= ssim_threshold2: both runs see the same frames, and the
\* similarity of a candidate to a retained frame is the same in both runs.
InitMono ==
  /\ pc = "loop" /\ response = "none" /\ taskDir = "present" /\ cleanup = "none"
  /\ sample_rate \in 1..MaxStride /\ max_frames \in 1..MaxBudget
  /\ ssim_threshold \in Thresholds /\ ssim_threshold2 \in Thresholds
  /\ ssim_threshold <= ssim_threshold2
  /\ cap = "open" /\ capFps = 25 /\ fps = DefaultFps(25)
  /\ run = NewRun /\ run2 = NewRun
  /\ dir = {} /\ files = <<>> /\ pages = <<>> /\ pdf = "none"

\* lines 100-129 for one frame of the stream, in a run that is still sampling
RunStep(r, sim, threshold) ==
  IF r.st # "loop" THEN r
  ELSE IF IsCandidate(r.frame_idx, sample_rate)
  THEN LoopCandidate(r, sim, threshold, max_frames, fps)
  ELSE LoopSkip(r)

MonoFrame ==
  /\ run.st = "loop" \/ run2.st = "loop"
  /\ \A r \in {run, run2} : r.st = "loop" => r.nread < MaxVideoLen
  /\ \E s1 \in SimValues, s2 \in SimValues :
        /\ (run.st = "loop" /\ run2.st = "loop" /\ run.last_small = run2.last_small)
              => s1 = s2
        /\ run' = RunStep(run, s1, ssim_threshold)
        /\ run2' = RunStep(run2, s2, ssim_threshold2)
  /\ UNCHANGED <<pc, response, taskDir, cleanup, sample_rate, ssim_threshold,
                 max_frames, cap, capFps, fps, dir, files, pages, pdf, ssim_threshold2>>

MonoEnd ==
  /\ run.st = "loop" \/ run2.st = "loop"
  /\ run' = IF run.st = "loop" THEN LoopEnd(run) ELSE run
  /\ run2' = IF run2.st = "loop" THEN LoopEnd(run2) ELSE run2
  /\ UNCHANGED <<pc, response, taskDir, cleanup, sample_rate, ssim_threshold,
                 max_frames, cap, capFps, fps, dir, files, pages, pdf, ssim_threshold2>>

NextMono == MonoFrame \/ MonoEnd

SpecMono == InitMono /\ [][NextMono]_vars

\* ------------------------------------------------------------- long videos
\* The sampler on a long stream, one retention at a time: between two retained
\* frames every frame read is off the stride or similar to the last retained one.
InitLong ==
  /\ pc = "loop" /\ response = "none" /\ taskDir = "present" /\ cleanup = "none"
  /\ sample_rate = 1 /\ max_frames \in 1..MaxBudget /\ ssim_threshold \in Thresholds
  /\ cap = "open" /\ capFps \in {1, 25} /\ fps = DefaultFps(capFps)
  /\ run = NewRun /\ run2 = IdleRun /\ ssim_threshold2 = 0
  /\ dir = {} /\ files = <<>> /\ pages = <<>> /\ pdf = "none"

LongRetain ==
  /\ pc = "loop" /\ run.st = "loop"
  /\ \E j \in LongIdx, lum \in Lums :
        /\ j >= run.frame_idx /\ (run.saved = <<>> => j = 0)
        /\ IsCandidate(j, sample_rate)
        /\ LET r0 == [run EXCEPT !.frame_idx = j, !.nread = j]
               r1 == LoopCandidate(r0, 0, ssim_threshold, max_frames, fps)
               w  == Written(r0, r1, lum)
           IN /\ run' = r1
              /\ dir' = {f \in dir : \A g \in w : g.name # f.name} \cup w
              /\ IF r1.st = "returned"
                 THEN cap' = "released" /\ pc' = "check"
                 ELSE UNCHANGED <<cap, pc>>
  /\ UNCHANGED <<response, taskDir, cleanup, sample_rate, ssim_threshold, max_frames,
                 capFps, fps, files, pages, pdf, ssim_threshold2, run2>>

NextLong ==
  \/ LongRetain \/ ReadEnd \/ CheckSaved \/ ConvertStart \/ ConvertPage
  \/ ConvertFinish \/ CleanupFire

SpecLong == InitLong /\ [][NextLong]_vars

\* ------------------------------------------------------------- properties
IdxDomain == (0..(MaxVideoLen + 1)) \cup LongIdx

\* the frame index a retained entry was written under
RetainedIdx(r, i) ==
  CHOOSE k \in IdxDomain : r.saved[i].name = OutName(k, r.saved[i].timestamp)

White == <<255, 255, 255>>
Black == <<0, 0, 0>>

\* C1: on every page the label is white when the corner mean luminance is below 64
\* and black when it is 64 or more.
LabelColourBlackOrWhite ==
  \A i \in 1..Len(pages) :
     pages[i].color = IF LumOf(dir, pages[i].fname) < 64 THEN White ELSE Black

\* C2: every page of a retained frame with timestamp t >= 0 carries the label
\* HH:MM:SS of t, the timestamp its file name was written with.
LabelRoundTrip ==
  \A i \in 1..Len(pages) : \A j \in 1..Len(run.saved) :
     (run.saved[j].name = pages[i].fname /\ run.saved[j].timestamp >= 0)
        => pages[i].ts = Label(run.saved[j].timestamp)

\* C4: once extract_unique_frames has returned or raised, the handle it acquired
\* has been released.
ReleasedOnEveryExit ==
  (run.st \in {"returned", "raised"} /\ cap # "none") => cap = "released"

\* C5: for positive stride and budget the retained list never exceeds max_frames,
\* no frame is read once it holds max_frames entries, and a returned list of a
\* stream with at least one decoded frame has between 1 and max_frames entries.
BudgetRespected ==
  (sample_rate > 0 /\ max_frames > 0 /\ run.st # "idle") =>
     /\ Len(run.saved) <= max_frames
     /\ (run.st = "loop" => Len(run.saved) < max_frames)
     /\ ((run.st = "returned" /\ run.nread >= 1) => Len(run.saved) >= 1)

BudgetRespectedWitness ==
  /\ sample_rate > 0 /\ max_frames = 2 /\ run.st = "returned"
  /\ Len(run.saved) = max_frames /\ run.nread >= 3

\* C6: retained frame indices are strictly increasing multiples of the stride, and
\* the last-retained signature is always that of the last retained frame, so a
\* frame off the stride is never retained and never becomes the signature.
StrideRespected ==
  (sample_rate > 0 /\ run.st # "idle") =>
     /\ \A i \in 1..Len(run.saved) : RetainedIdx(run, i) % sample_rate = 0
     /\ \A i \in 1..Len(run.saved) : \A j \in 1..Len(run.saved) :
           i < j => RetainedIdx(run, i) < RetainedIdx(run, j)
     /\ run.last_small = IF run.saved = <<>> THEN <<>>
                         ELSE <<RetainedIdx(run, Len(run.saved))>>
     /\ \A i \in 1..Len(run.saved) : RetainedIdx(run, i) <= run.frame_idx

StrideRespectedWitness ==
  /\ sample_rate = 2 /\ Len(run.saved) = 2 /\ run.frame_idx >= 3
  /\ RetainedIdx(run, 2) = 2

\* C8: a stream that opens and yields no frame makes extract_unique_frames return
\* the empty list, and process() answers "no distinctive frames" as a handled 400
\* without ever entering convert_frames_to_pdf.
ZeroFramesHandled ==
  (run.st = "returned" /\ run.nread = 0) =>
     /\ run.saved = <<>>
     /\ pc \in {"check", "done"}
     /\ (pc = "done" => response = "400 no frames")
     /\ files = <<>> /\ pages = <<>> /\ pdf = "none"

ZeroFramesHandledWitness ==
  /\ run.st = "returned" /\ run.nread = 0 /\ cap = "released"
  /\ pc = "done" /\ response = "400 no frames"

\* C9: when the stream reports a frame rate of zero or below, fps is 25 and every
\* retained timestamp is floor(frame_index / 25), a non-negative integer.
NonPositiveFpsDefaults ==
  (run.st # "idle" /\ cap # "unopened" /\ capFps <= 0) =>
     /\ fps = 25
     /\ \A i \in 1..Len(run.saved) :
           /\ run.saved[i].timestamp >= 0
           /\ run.saved[i].timestamp = RetainedIdx(run, i) \div 25

\* C10: when a request that created its task directory has completed, the
\* directory is removed or its delayed cleanup is pending.
TaskDirNeverLeaked ==
  (pc = "done" /\ taskDir = "present") => cleanup = "pending"

\* C3 (as stated): with thresholds T1 <= T2 on the same video, stride and budget,
\* the run with T2 retains at least as many frames as the run with T1.
CountMonotoneInThreshold ==
  (run.st = "returned" /\ run2.st = "returned")
     => Len(run2.saved) >= Len(run.saved)

\* C3 (amended): whenever both runs compare a candidate against the same
\* last-retained frame, retention under T1 implies retention under T2.
StepMonotoneInThreshold ==
  [][ ( /\ run.st = "loop" /\ run2.st = "loop"
        /\ run.last_small = run2.last_small
        /\ Len(run'.saved) > Len(run.saved) )
      => Len(run2'.saved) > Len(run2.saved) ]_vars

StepMonotoneWitness ==
  /\ ssim_threshold < ssim_threshold2
  /\ Len(run.saved) = 2 /\ Len(run2.saved) = 3
  /\ run2.saved[1] = run.saved[1] /\ run2.saved[2] = run.saved[2]

\* C7: the document has exactly one page per retained frame, in retention order.
PageOrderIsRetentionOrder ==
  /\ \A i \in 1..Len(pages) :
        i <= Len(run.saved) /\ pages[i].fname = run.saved[i].name
  /\ response = "200 done" => Len(pages) = Len(run.saved)

====
